---- MODULE Spec2Model ----
(***************************************************************************)
(* A model of the bucket package (bucket.Bucket and its methods) and of    *)
(* the Put option constructors of package option.                          *)
(*                                                                         *)
(* Go strings that the code inspects byte by byte (bucket names, keys,     *)
(* copy sources) are sequences of byte values; strings that are only       *)
(* stored and compared (key ids, content types, canned ACLs) are TLA+      *)
(* strings.                                                                *)
(*                                                                         *)
(* Pointers.  aws.String(v) / aws.Int64(v) allocate a fresh cell that only *)
(* the assigned field references; such a pointer is the one-element        *)
(* sequence <<v>> and the nil pointer is <<>>.  The one cell that is       *)
(* shared is the one New allocates for the bucket name: it lives in heap   *)
(* at address NameRef, and every request's Bucket field holds that         *)
(* address, as the code assigns b.Name itself.                             *)
(***************************************************************************)
EXTENDS Integers, Sequences, FiniteSets, TLC

VARIABLES handle, heap, pc, call, req, idx, sent, reply, ret

vars == <<handle, heap, pc, call, req, idx, sent, reply, ret>>

(***************************************************************************)
(* Bounds and input domains                                                *)
(***************************************************************************)
\* Longest option list of a call in the single-caller specifications.
MaxOpts == 3
\* Longest option list of a call in the concurrent specification.
MaxConcOpts == 2
\* Longest source key of CopyObject in SpecCopy.
MaxSrcLen == 3
\* Longest in-limit identifier list handed to DeleteObjects.
MaxIds == 2

\* "A maximum of 1000 objects can be deleted at a time with this method."
ServiceMaxBatch == 1000
\* net/http.StatusNotFound
StatusNotFound == 404

Callers == {"c1", "c2"}

\* "b1", "my.bkt"
BucketNames == {<<98, 49>>, <<109, 121, 46, 98, 107, 116>>}
\* "k", "a b/c#d?e"
Keys == {<<107>>, <<97, 32, 98, 47, 99, 35, 100, 63, 101>>}
Bodies == {"rs1"}
KMSKeyIDs == {"key-1", "key-2"}
ContentTypes == {"text/plain", "image/png"}
ContentLengths == {0, 7}
\* bytes of source keys: 'a', ' ', '#', '?', '+', '%', '2'
SrcBytes == {97, 32, 35, 63, 43, 37, 50}

SeqsUpTo(S, n) == UNION {[1..k -> S] : k \in 0..n}

(***************************************************************************)
(* Pointers                                                                *)
(***************************************************************************)
NilPtr == <<>>
Ptr(v) == <<v>>
NameRef == "Bucket.Name"

(***************************************************************************)
(* package option: the Put options.  A PutObjectInput option is a closure  *)
(* over its constructor's argument; the closure value is the record the    *)
(* constructor returns and the closure body is the ...Func operator.       *)
(***************************************************************************)
SSEKMSKeyID(keyID) == [name |-> "SSEKMSKeyID", arg |-> <<keyID>>]
SSES3 == [name |-> "SSES3", arg |-> <<>>]
ACLPrivate == [name |-> "ACLPrivate", arg |-> <<>>]
ACLPublicRead == [name |-> "ACLPublicRead", arg |-> <<>>]
ContentType(ct) == [name |-> "ContentType", arg |-> <<ct>>]
ContentLength(length) == [name |-> "ContentLength", arg |-> <<length>>]

SSEKMSKeyIDFunc(keyID, r) ==
    [r EXCEPT !.SSEKMSKeyId = Ptr(keyID), !.ServerSideEncryption = Ptr("aws:kms")]

\* a provider-managed mode that also drops the key reference
SSES3FuncClearsKey(r) ==
    [r EXCEPT !.ServerSideEncryption = Ptr("AES256"), !.SSEKMSKeyId = NilPtr]

SSES3Func(r) ==
    [r EXCEPT !.ServerSideEncryption = Ptr("AES256")]

ACLPrivateFunc(r) ==
    [r EXCEPT !.ACL = Ptr("private")]

ACLPublicReadFunc(r) ==
    [r EXCEPT !.ACL = Ptr("public-read")]

\* a setter that keeps a content type that is already there
ContentTypeFuncKeepsFirst(ct, r) ==
    IF r.ContentType = NilPtr THEN [r EXCEPT !.ContentType = Ptr(ct)] ELSE r

ContentTypeFunc(ct, r) ==
    [r EXCEPT !.ContentType = Ptr(ct)]

ContentLengthFunc(length, r) ==
    [r EXCEPT !.ContentLength = Ptr(length)]

\* f(req) for a Put option f
CallPutOption(f, r) ==
    CASE f.name = "SSEKMSKeyID"   -> SSEKMSKeyIDFunc(f.arg[1], r)
      [] f.name = "SSES3"         -> SSES3Func(r)
      [] f.name = "ACLPrivate"    -> ACLPrivateFunc(r)
      [] f.name = "ACLPublicRead" -> ACLPublicReadFunc(r)
      [] f.name = "ContentType"   -> ContentTypeFunc(f.arg[1], r)
      [] f.name = "ContentLength" -> ContentLengthFunc(f.arg[1], r)

PutOptions ==
    {SSEKMSKeyID(k) : k \in KMSKeyIDs} \cup {SSES3, ACLPrivate, ACLPublicRead}
    \cup {ContentType(ct) : ct \in ContentTypes}
    \cup {ContentLength(n) : n \in ContentLengths}

(***************************************************************************)
(* package option: the Get, Head, List, ListV2, ListVersions and Copy      *)
(* option families.  Each option is a setter of one optional field of its  *)
(* request kind; the field is called Opt here.                             *)
(***************************************************************************)
FieldOption(v) == [name |-> "FieldOption", arg |-> <<v>>]

FieldOptionFunc(v, r) ==
    [r EXCEPT !.Opt = Ptr(v)]

FieldOptions == {FieldOption("v1"), FieldOption("v2")}

(***************************************************************************)
(* net/url.QueryEscape, as CopyObject calls it, on byte sequences          *)
(***************************************************************************)
upperhex == <<48, 49, 50, 51, 52, 53, 54, 55, 56, 57, 65, 66, 67, 68, 69, 70>>

IsAlnum(c) ==
    \/ c \in 48..57
    \/ c \in 65..90
    \/ c \in 97..122

\* shouldEscape(c, encodeQueryComponent): everything but the unreserved bytes
shouldEscape(c) ==
    ~ (IsAlnum(c) \/ c \in {45, 95, 46, 126})

\* an escape that lets '+' through, as a path-segment escape does
escapeBytePlusKept(c) ==
    IF c = 43 THEN <<c>>
    ELSE IF ~ shouldEscape(c) THEN <<c>>
    ELSE IF c = 32 THEN <<43>>
    ELSE <<37, upperhex[(c \div 16) + 1], upperhex[(c % 16) + 1]>>

escapeByte(c) ==
    IF ~ shouldEscape(c) THEN <<c>>
    ELSE IF c = 32 THEN <<43>>
    ELSE <<37, upperhex[(c \div 16) + 1], upperhex[(c % 16) + 1]>>

RECURSIVE QueryEscape(_)
QueryEscape(s) ==
    IF s = <<>> THEN <<>> ELSE escapeByte(Head(s)) \o QueryEscape(Tail(s))

(***************************************************************************)
(* net/url.QueryUnescape: the inverse the round trip of a copy source is   *)
(* stated with.  InvalidEscape stands for its EscapeError.                 *)
(***************************************************************************)
InvalidEscape == <<-1>>

ishex(c) ==
    \/ c \in 48..57
    \/ c \in 97..102
    \/ c \in 65..70

unhex(c) ==
    IF c \in 48..57 THEN c - 48
    ELSE IF c \in 97..102 THEN c - 97 + 10
    ELSE c - 65 + 10

RECURSIVE QueryUnescape(_)
QueryUnescape(s) ==
    IF s = <<>> THEN <<>>
    ELSE IF Head(s) = 37
         THEN IF Len(s) < 3 \/ ~ ishex(s[2]) \/ ~ ishex(s[3])
              THEN InvalidEscape
              ELSE LET rest == QueryUnescape(SubSeq(s, 4, Len(s)))
                   IN  IF rest = InvalidEscape THEN InvalidEscape
                       ELSE <<unhex(s[2]) * 16 + unhex(s[3])>> \o rest
    ELSE LET rest == QueryUnescape(Tail(s))
         IN  IF rest = InvalidEscape THEN InvalidEscape
             ELSE <<(IF Head(s) = 43 THEN 32 ELSE Head(s))>> \o rest

(***************************************************************************)
(* The requests each method builds before its options run                  *)
(***************************************************************************)
NewGetObjectInput(b, key) ==
    [Bucket |-> b.Name, Key |-> Ptr(key), Opt |-> NilPtr]

\* a metadata request whose key is left for later
NewHeadObjectInputNoKey(b, key) ==
    [Bucket |-> b.Name, Key |-> NilPtr, Opt |-> NilPtr]

NewHeadObjectInput(b, key) ==
    [Bucket |-> b.Name, Key |-> Ptr(key), Opt |-> NilPtr]

NewPutObjectInput(b, key, rs) ==
    [Bucket |-> b.Name, Key |-> Ptr(key), Body |-> rs,
     SSEKMSKeyId |-> NilPtr, ServerSideEncryption |-> NilPtr, ACL |-> NilPtr,
     ContentType |-> NilPtr, ContentLength |-> NilPtr]

NewDeleteObjectInput(b, key) ==
    [Bucket |-> b.Name, Key |-> Ptr(key)]

NewDeleteObjectsInput(b, identifiers) ==
    [Bucket |-> b.Name, Delete |-> Ptr([Objects |-> identifiers])]

NewListObjectsInput(b, prefix) ==
    [Bucket |-> b.Name, Prefix |-> Ptr(prefix), Opt |-> NilPtr]

\* aws.StringValue(b.Name) + "/" + url.QueryEscape(src)
CopySource(b, h, src) ==
    h[b.Name] \o <<47>> \o QueryEscape(src)

NewCopyObjectInput(b, h, dest, src) ==
    [Bucket |-> b.Name, Key |-> Ptr(dest), CopySource |-> Ptr(CopySource(b, h, src)),
     Opt |-> NilPtr]

(***************************************************************************)
(* The methods                                                             *)
(***************************************************************************)
OptionMethods ==
    {"GetObject", "GetObjectReader", "GetObjectRequest", "HeadObject", "ExistsObject",
     "PutObject", "ListObjects", "ListObjectsV2PagesWithContext",
     "ListObjectVersionsPagesWithContext", "CopyObject"}

PagingMethods ==
    {"ListObjectsV2PagesWithContext", "ListObjectVersionsPagesWithContext"}

Methods == OptionMethods \cup {"DeleteObject", "DeleteObjects"}

\* the method of b.S3 each method of Bucket ends in
ClientMethod(op) ==
    CASE op = "GetObjectReader" -> "GetObject"
      [] op = "ExistsObject"    -> "HeadObject"
      [] OTHER                  -> op

\* f(req) for an option f of the family of op
CallOption(op, f, r) ==
    IF op = "PutObject" THEN CallPutOption(f, r) ELSE FieldOptionFunc(f.arg[1], r)

\* options applied from the far end of the list
NextOptionReversed(opts, i) == opts[Len(opts) - i]

\* the option the loop  for _, f := range opts  runs after i options
NextOption(opts, i) == opts[i + 1]

(***************************************************************************)
(* What the client (s3iface.S3API) can return                              *)
(***************************************************************************)
NoErr == [type |-> "nil"]
RequestFailure(status, code) ==
    [type |-> "awserr.RequestFailure", status |-> status, code |-> code]
Errors ==
    {RequestFailure(StatusNotFound, "NotFound"), RequestFailure(403, "Forbidden"),
     RequestFailure(500, "InternalError"),
     [type |-> "awserr.Error", code |-> "RequestCanceled"],
     [type |-> "errors.errorString", msg |-> "unexpected EOF"]}

NilOut == [kind |-> "nil"]
Output(m) == [kind |-> m, Body |-> "rc1"]

Replies(m) ==
    CASE m = "GetObjectRequest" -> {[out |-> Output(m), err |-> NoErr]}
      [] m \in PagingMethods    -> {[out |-> NilOut, err |-> e] : e \in Errors \cup {NoErr}}
      [] OTHER                  ->
            {[out |-> Output(m), err |-> NoErr]}
            \cup {[out |-> o, err |-> e] : o \in {Output(m), NilOut}, e \in Errors}

\* err.(awserr.RequestFailure)
IsRequestFailure(err) == err.type = "awserr.RequestFailure"

\* an existence check that takes every failed request for an absent key
ExistsObjectResultAnyFailure(r) ==
    IF r.err = NoErr THEN [val |-> TRUE, err |-> NoErr]
    ELSE IF IsRequestFailure(r.err)
         THEN [val |-> FALSE, err |-> NoErr]
         ELSE [val |-> FALSE, err |-> r.err]

\* what ExistsObject returns on HeadObject's (_, err)
ExistsObjectResult(r) ==
    IF r.err = NoErr THEN [val |-> TRUE, err |-> NoErr]
    ELSE IF IsRequestFailure(r.err) /\ r.err.status = StatusNotFound
         THEN [val |-> FALSE, err |-> NoErr]
         ELSE [val |-> FALSE, err |-> r.err]

\* what GetObjectReader returns on GetObject's (resp, err)
GetObjectReaderResult(r) ==
    IF r.err # NoErr THEN [val |-> NilOut, err |-> r.err]
    ELSE [val |-> r.out.Body, err |-> NoErr]

\* a forwarding return that wraps a failure in an error of its own
ForwardResultWrapped(r) ==
    IF r.err = NoErr THEN [val |-> r.out, err |-> NoErr]
    ELSE [val |-> r.out, err |-> [type |-> "wrapped", cause |-> r.err]]

\* return b.S3.Method(req)
ForwardResult(r) ==
    [val |-> r.out, err |-> r.err]

\* what the method op returns on the client's r; ExistsObject and
\* GetObjectReader go through HeadObject and GetObject
Result(op, r) ==
    CASE op = "ExistsObject"    ->
            ExistsObjectResult([out |-> ForwardResult(r).val, err |-> ForwardResult(r).err])
      [] op = "GetObjectReader" ->
            GetObjectReaderResult([out |-> ForwardResult(r).val, err |-> ForwardResult(r).err])
      [] OTHER                  -> ForwardResult(r)

(***************************************************************************)
(* State.  Each caller runs one method at a time on the shared handle:     *)
(*   call   the method and its arguments                                   *)
(*   req    the request the method built (local to the call)               *)
(*   idx    how many of call.opts have run                                 *)
(*   sent   the calls the client has received from this method call        *)
(*   reply  what the client returned, ret what the method returned         *)
(* A method is three kinds of step, so that calls of different callers     *)
(* interleave: building the request, one turn of the option loop, and the  *)
(* call of the client with the return.                                     *)
(***************************************************************************)
NoCall == [op |-> "none", key |-> <<>>, arg |-> <<>>, opts |-> <<>>]
NoReq == [none |-> TRUE]
NoReply == [none |-> TRUE]
NoRet == [none |-> TRUE]

New(s, name) ==
    [b |-> [S3 |-> s, Name |-> NameRef], h |-> [a \in {NameRef} |-> name]]

Init ==
    /\ \E name \in BucketNames :
          /\ handle = New("s3", name).b
          /\ heap = New("s3", name).h
    /\ pc = [c \in Callers |-> "idle"]
    /\ call = [c \in Callers |-> NoCall]
    /\ req = [c \in Callers |-> NoReq]
    /\ idx = [c \in Callers |-> 0]
    /\ sent = [c \in Callers |-> <<>>]
    /\ reply = [c \in Callers |-> NoReply]
    /\ ret = [c \in Callers |-> NoRet]

\* the method's request is built: req := &s3.XInput{...}
Begin(c, op, key, arg, opts, r0) ==
    /\ pc[c] = "idle"
    /\ call' = [call EXCEPT ![c] = [op |-> op, key |-> key, arg |-> arg, opts |-> opts]]
    /\ req' = [req EXCEPT ![c] = r0]
    /\ idx' = [idx EXCEPT ![c] = 0]
    /\ pc' = [pc EXCEPT ![c] = "opts"]
    /\ UNCHANGED <<handle, heap, sent, reply, ret>>

GetObject(c, key, opts) ==
    Begin(c, "GetObject", key, <<>>, opts, NewGetObjectInput(handle, key))

GetObjectReader(c, key, opts) ==
    Begin(c, "GetObjectReader", key, <<>>, opts, NewGetObjectInput(handle, key))

GetObjectRequest(c, key, opts) ==
    Begin(c, "GetObjectRequest", key, <<>>, opts, NewGetObjectInput(handle, key))

HeadObject(c, key, opts) ==
    Begin(c, "HeadObject", key, <<>>, opts, NewHeadObjectInput(handle, key))

ExistsObject(c, key, opts) ==
    Begin(c, "ExistsObject", key, <<>>, opts, NewHeadObjectInput(handle, key))

PutObject(c, key, rs, opts) ==
    Begin(c, "PutObject", key, rs, opts, NewPutObjectInput(handle, key, rs))

DeleteObject(c, key) ==
    Begin(c, "DeleteObject", key, <<>>, <<>>, NewDeleteObjectInput(handle, key))

\* a batch delete that answers an empty batch itself
DeleteObjectsShortCircuit(c, identifiers) ==
    IF identifiers = <<>>
    THEN /\ pc[c] = "idle"
         /\ call' = [call EXCEPT ![c] =
                        [op |-> "DeleteObjects", key |-> <<>>, arg |-> identifiers,
                         opts |-> <<>>]]
         /\ ret' = [ret EXCEPT ![c] = [val |-> Output("DeleteObjects"), err |-> NoErr]]
         /\ pc' = [pc EXCEPT ![c] = "done"]
         /\ UNCHANGED <<handle, heap, req, idx, sent, reply>>
    ELSE Begin(c, "DeleteObjects", <<>>, identifiers, <<>>,
               NewDeleteObjectsInput(handle, identifiers))

DeleteObjects(c, identifiers) ==
    Begin(c, "DeleteObjects", <<>>, identifiers, <<>>,
          NewDeleteObjectsInput(handle, identifiers))

ListObjects(c, prefix, opts) ==
    Begin(c, "ListObjects", prefix, <<>>, opts, NewListObjectsInput(handle, prefix))

ListObjectsV2PagesWithContext(c, ctx, prefix, pageFunc, opts) ==
    Begin(c, "ListObjectsV2PagesWithContext", prefix, <<ctx, pageFunc>>, opts,
          NewListObjectsInput(handle, prefix))

ListObjectVersionsPagesWithContext(c, ctx, prefix, pageFunc, opts) ==
    Begin(c, "ListObjectVersionsPagesWithContext", prefix, <<ctx, pageFunc>>, opts,
          NewListObjectsInput(handle, prefix))

CopyObject(c, dest, src, opts) ==
    Begin(c, "CopyObject", dest, src, opts, NewCopyObjectInput(handle, heap, dest, src))

\* an option loop whose options also store through the request's Bucket pointer
ApplyOptionWritesThrough(c) ==
    /\ pc[c] = "opts"
    /\ idx[c] < Len(call[c].opts)
    /\ req' = [req EXCEPT ![c] =
                  CallOption(call[c].op, NextOption(call[c].opts, idx[c]), req[c])]
    /\ heap' = [heap EXCEPT ![req[c].Bucket] = call[c].key]
    /\ idx' = [idx EXCEPT ![c] = idx[c] + 1]
    /\ UNCHANGED <<handle, pc, call, sent, reply, ret>>

\* one turn of  for _, f := range opts { f(req) }
ApplyOption(c) ==
    /\ pc[c] = "opts"
    /\ idx[c] < Len(call[c].opts)
    /\ req' = [req EXCEPT ![c] =
                  CallOption(call[c].op, NextOption(call[c].opts, idx[c]), req[c])]
    /\ idx' = [idx EXCEPT ![c] = idx[c] + 1]
    /\ UNCHANGED <<handle, heap, pc, call, sent, reply, ret>>

\* the client's view of one call: its method, the input, and for the paging
\* methods the context and the page callback
ClientCall(c) ==
    [method |-> ClientMethod(call[c].op), input |-> req[c],
     extra |-> IF call[c].op \in PagingMethods THEN call[c].arg ELSE <<>>]

\* return b.S3.Method(req): the client is called, answers r, the method returns
Forward(c, r) ==
    /\ pc[c] = "opts"
    /\ idx[c] = Len(call[c].opts)
    /\ r \in Replies(ClientMethod(call[c].op))
    /\ sent' = [sent EXCEPT ![c] = Append(sent[c], ClientCall(c))]
    /\ reply' = [reply EXCEPT ![c] = r]
    /\ ret' = [ret EXCEPT ![c] = Result(call[c].op, r)]
    /\ pc' = [pc EXCEPT ![c] = "done"]
    /\ UNCHANGED <<handle, heap, call, req, idx>>

\* the caller has its result; the call's locals are gone
Return(c) ==
    /\ pc[c] = "done"
    /\ pc' = [pc EXCEPT ![c] = "idle"]
    /\ call' = [call EXCEPT ![c] = NoCall]
    /\ req' = [req EXCEPT ![c] = NoReq]
    /\ idx' = [idx EXCEPT ![c] = 0]
    /\ sent' = [sent EXCEPT ![c] = <<>>]
    /\ reply' = [reply EXCEPT ![c] = NoReply]
    /\ ret' = [ret EXCEPT ![c] = NoRet]
    /\ UNCHANGED <<handle, heap>>

(***************************************************************************)
(* Input domains of the specifications                                     *)
(***************************************************************************)
PutOptSeqs == SeqsUpTo(PutOptions, MaxOpts)
OptSeqs == SeqsUpTo(FieldOptions, MaxOpts)
ConcPutOptSeqs == SeqsUpTo({SSEKMSKeyID("key-1"), SSES3, ContentType("text/plain")}, MaxConcOpts)
ConcOptSeqs == SeqsUpTo({FieldOption("v1")}, MaxConcOpts)
SrcStrings == SeqsUpTo(SrcBytes, MaxSrcLen)

ObjectIdentifiers == {[Key |-> <<107>>], [Key |-> <<97, 32, 98>>]}
OverLimit == [i \in 1..(ServiceMaxBatch + 1) |-> [Key |-> <<107>>]]
IdLists == SeqsUpTo(ObjectIdentifiers, MaxIds) \cup {OverLimit}

AllReplies == UNION {Replies(ClientMethod(op)) : op \in Methods}
ConcReplies ==
    {r \in AllReplies : r.err \in {NoErr, RequestFailure(StatusNotFound, "NotFound")}}

\* the calls an idle caller can start, with option lists from putSeqs and optSeqs
Invoke(c, putSeqs, optSeqs, idLists) ==
    \/ pc[c] = "idle" /\ \E key \in Keys, opts \in optSeqs : GetObject(c, key, opts)
    \/ pc[c] = "idle" /\ \E key \in Keys, opts \in optSeqs : GetObjectReader(c, key, opts)
    \/ pc[c] = "idle" /\ \E key \in Keys, opts \in optSeqs : GetObjectRequest(c, key, opts)
    \/ pc[c] = "idle" /\ \E key \in Keys, opts \in optSeqs : HeadObject(c, key, opts)
    \/ pc[c] = "idle" /\ \E key \in Keys, opts \in optSeqs : ExistsObject(c, key, opts)
    \/ pc[c] = "idle" /\ \E key \in Keys, rs \in Bodies, opts \in putSeqs :
                            PutObject(c, key, rs, opts)
    \/ pc[c] = "idle" /\ \E key \in Keys : DeleteObject(c, key)
    \/ pc[c] = "idle" /\ \E identifiers \in idLists : DeleteObjects(c, identifiers)
    \/ pc[c] = "idle" /\ \E prefix \in Keys, opts \in optSeqs : ListObjects(c, prefix, opts)
    \/ pc[c] = "idle" /\ \E prefix \in Keys, opts \in optSeqs :
                            ListObjectsV2PagesWithContext(c, "ctx", prefix, "pageFunc", opts)
    \/ pc[c] = "idle" /\ \E prefix \in Keys, opts \in optSeqs :
                            ListObjectVersionsPagesWithContext(c, "ctx", prefix, "pageFunc", opts)
    \/ pc[c] = "idle" /\ \E dest \in Keys, src \in Keys, opts \in optSeqs :
                            CopyObject(c, dest, src, opts)

\* the client answers the call of a caller whose options have all run
Answer(c, replies) ==
    /\ pc[c] = "opts"
    /\ idx[c] = Len(call[c].opts)
    /\ \E r \in replies : Forward(c, r)

\* Concurrent callers on one handle.
Next ==
    \E c \in Callers :
        \/ Invoke(c, ConcPutOptSeqs, ConcOptSeqs, {<<>>, OverLimit})
        \/ ApplyOption(c)
        \/ Answer(c, ConcReplies)
        \/ Return(c)

Spec == Init /\ [][Next]_vars

\* One caller, every method, the full option lists and client answers.
NextSeq ==
    \/ Invoke("c1", PutOptSeqs, OptSeqs, IdLists)
    \/ ApplyOption("c1")
    \/ Answer("c1", AllReplies)
    \/ Return("c1")

SpecSeq == Init /\ [][NextSeq]_vars

\* One caller copying from every source key over SrcBytes.
NextCopy ==
    \/ pc["c1"] = "idle" /\ \E dest \in Keys, src \in SrcStrings, opts \in ConcOptSeqs :
                               CopyObject("c1", dest, src, opts)
    \/ ApplyOption("c1")
    \/ Answer("c1", ConcReplies)
    \/ Return("c1")

SpecCopy == Init /\ [][NextCopy]_vars

(***************************************************************************)
(* Vocabulary of the properties                                            *)
(***************************************************************************)
InCall(c, op) == pc[c] \in {"opts", "done"} /\ call[c].op = op

\* the bucket name a request carries: the string its Bucket pointer refers to
BucketOf(r) == heap[r.Bucket]

\* the request {bucket, key, body} with no optional field set
PutBase(key, rs) ==
    [Bucket |-> handle.Name, Key |-> <<key>>, Body |-> rs,
     SSEKMSKeyId |-> <<>>, ServerSideEncryption |-> <<>>, ACL |-> <<>>,
     ContentType |-> <<>>, ContentLength |-> <<>>]

\* the options of opts applied to r one after another, left to right
RECURSIVE InOrder(_, _)
InOrder(opts, r) ==
    IF opts = <<>> THEN r ELSE InOrder(Tail(opts), CallPutOption(Head(opts), r))

\* the fields a Put option assigns, with the values it assigns
Writes(f) ==
    CASE f.name = "SSEKMSKeyID"   ->
            [SSEKMSKeyId |-> <<f.arg[1]>>, ServerSideEncryption |-> <<"aws:kms">>]
      [] f.name = "SSES3"         -> [ServerSideEncryption |-> <<"AES256">>]
      [] f.name = "ACLPrivate"    -> [ACL |-> <<"private">>]
      [] f.name = "ACLPublicRead" -> [ACL |-> <<"public-read">>]
      [] f.name = "ContentType"   -> [ContentType |-> <<f.arg[1]>>]
      [] f.name = "ContentLength" -> [ContentLength |-> <<f.arg[1]>>]

OptionalPutFields ==
    {"SSEKMSKeyId", "ServerSideEncryption", "ACL", "ContentType", "ContentLength"}

Last(S) == CHOOSE i \in S : \A j \in S : j <= i

C2_PutObjectForwards ==
    \A c \in Callers :
        /\ (pc[c] = "opts" /\ call[c].op = "PutObject") => sent[c] = <<>>
        /\ (pc[c] = "done" /\ call[c].op = "PutObject") =>
              /\ Len(sent[c]) = 1
              /\ sent[c][1].method = "PutObject"
              /\ BucketOf(sent[c][1].input) = heap[handle.Name]
              /\ sent[c][1].input.Key = <<call[c].key>>
              /\ sent[c][1].input = InOrder(call[c].opts, PutBase(call[c].key, call[c].arg))

\* a forwarded request on which the order of two content types shows
C2_Witness ==
    /\ pc["c1"] = "done"
    /\ call["c1"].op = "PutObject"
    /\ Len(call["c1"].opts) = 3
    /\ call["c1"].opts[1] = ContentType("text/plain")
    /\ call["c1"].opts[2] = ContentType("image/png")
    /\ Len(sent["c1"]) = 1
    /\ sent["c1"][1].input.ContentType = <<"image/png">>

(***************************************************************************)
(* C3.  When several of the Put options applied to a request assign the    *)
(* same field, the field holds the value of the one applied last, whatever *)
(* options that do not assign the field were applied in between or after.  *)
(***************************************************************************)
C3_LastWriteWins ==
    \A c \in Callers :
        InCall(c, "PutObject") =>
            \A field \in OptionalPutFields :
                LET writers == {i \in 1..idx[c] : field \in DOMAIN Writes(call[c].opts[i])}
                IN  IF writers = {} THEN req[c][field] = <<>>
                    ELSE req[c][field] = Writes(call[c].opts[Last(writers)])[field]

\* two content types with another option in between: the second one stands
C3_Witness ==
    /\ InCall("c1", "PutObject")
    /\ idx["c1"] = 3
    /\ call["c1"].opts[1] = ContentType("text/plain")
    /\ call["c1"].opts[2] = ACLPrivate
    /\ call["c1"].opts[3] = ContentType("image/png")
    /\ req["c1"].ContentType = <<"image/png">>

(***************************************************************************)
(* C4.  CopyObject(dst, src) builds a request whose bucket is the handle's *)
(* bucket name, whose key is dst and whose copy source is the bucket name, *)
(* "/" and the query-escaped src; the escaped part holds no space, "#",    *)
(* "?" or "/", and query-unescaping it yields src again.                   *)
(***************************************************************************)
C4_CopySource ==
    \A c \in Callers :
        InCall(c, "CopyObject") =>
            LET name == heap[handle.Name]
                cs == req[c].CopySource[1]
                escaped == SubSeq(cs, Len(name) + 2, Len(cs))
            IN  /\ BucketOf(req[c]) = name
                /\ req[c].Key = <<call[c].key>>
                /\ Len(cs) >= Len(name) + 1
                /\ SubSeq(cs, 1, Len(name) + 1) = name \o <<47>>
                /\ escaped = QueryEscape(call[c].arg)
                /\ \A i \in 1..Len(escaped) : escaped[i] \notin {32, 35, 63, 47}
                /\ QueryUnescape(escaped) = call[c].arg

\* the source key " #?" went to the client as "+%23%3F"
C4_Witness ==
    /\ pc["c1"] = "done"
    /\ call["c1"].op = "CopyObject"
    /\ call["c1"].arg = <<32, 35, 63>>
    /\ Len(sent["c1"]) = 1
    /\ sent["c1"][1].input.CopySource[1] =
          heap[handle.Name] \o <<47, 43, 37, 50, 51, 37, 51, 70>>

(***************************************************************************)
(* C5.  Every method but ExistsObject that returns an error returns the    *)
(* very error the client returned and calls the client exactly once;       *)
(* GetObjectReader returns a nil reader with that error when GetObject     *)
(* fails and the response body with a nil error otherwise.                 *)
(***************************************************************************)
ErrorMethods == Methods \ {"ExistsObject", "GetObjectRequest"}

C5_ErrorsUnchanged ==
    \A c \in Callers :
        (pc[c] = "done" /\ call[c].op \in ErrorMethods) =>
            /\ Len(sent[c]) = 1
            /\ sent[c][1].method = ClientMethod(call[c].op)
            /\ ret[c].err = reply[c].err
            /\ (call[c].op = "GetObjectReader") =>
                  IF reply[c].err # NoErr
                  THEN ret[c].val = [kind |-> "nil"]
                  ELSE ret[c].val = reply[c].out.Body

\* GetObjectReader on a failed GetObject: nil reader, the client's error
C5_Witness ==
    /\ pc["c1"] = "done"
    /\ call["c1"].op = "GetObjectReader"
    /\ reply["c1"].out # NilOut
    /\ reply["c1"].err = RequestFailure(500, "InternalError")
    /\ ret["c1"] = [val |-> NilOut, err |-> RequestFailure(500, "InternalError")]

(***************************************************************************)
(* C7.  In every method that takes options the request carries the         *)
(* handle's bucket name and the key or prefix before the first option      *)
(* runs, and no sequence of Put options changes or unsets the bucket, key  *)
(* or body of a PutObject request.                                         *)
(***************************************************************************)
KeyOrPrefix(op, r) ==
    IF op \in {"ListObjects"} \cup PagingMethods THEN r.Prefix ELSE r.Key

C7_BucketAndKeySet ==
    \A c \in Callers :
        /\ (pc[c] = "opts" /\ idx[c] = 0 /\ call[c].op \in OptionMethods) =>
              /\ req[c].Bucket = handle.Name
              /\ BucketOf(req[c]) \in BucketNames
              /\ KeyOrPrefix(call[c].op, req[c]) = <<call[c].key>>
        /\ InCall(c, "PutObject") =>
              /\ req[c].Bucket = handle.Name
              /\ BucketOf(req[c]) \in BucketNames
              /\ req[c].Key = <<call[c].key>>
              /\ req[c].Body = call[c].arg

\* a PutObject request after three options, optional fields set
C7_Witness ==
    /\ pc["c1"] = "opts"
    /\ call["c1"].op = "PutObject"
    /\ idx["c1"] = 3
    /\ req["c1"].SSEKMSKeyId # <<>>
    /\ req["c1"].ACL # <<>>
    /\ req["c1"].ContentLength # <<>>

(***************************************************************************)
(* C8.  No step of any method, under any interleaving of the callers,      *)
(* changes the handle (its client, its name pointer) or the string the     *)
(* name pointer refers to, and a step of one caller leaves the request of  *)
(* every other caller as it was; every request's Bucket is the handle's    *)
(* name pointer.                                                           *)
(***************************************************************************)
Stepped(c) == pc'[c] # pc[c] \/ idx'[c] # idx[c]

C8_HandleReadOnlyStep ==
    /\ handle' = handle
    /\ heap' = heap
    /\ \A c \in Callers : \A d \in Callers \ {c} :
          Stepped(c) => /\ req'[d] = req[d]
                        /\ call'[d] = call[d]
                        /\ sent'[d] = sent[d]
    /\ \A c \in Callers : pc'[c] = "opts" => req'[c].Bucket = handle.Name

C8_HandleReadOnly == [][C8_HandleReadOnlyStep]_vars

\* two PutObject calls in flight, each with its own key and fields, one Bucket pointer
C8_Witness ==
    /\ pc["c1"] = "opts" /\ pc["c2"] = "opts"
    /\ call["c1"].op = "PutObject" /\ call["c2"].op = "PutObject"
    /\ idx["c1"] = 1 /\ idx["c2"] = 1
    /\ req["c1"].Key # req["c2"].Key
    /\ req["c1"].ServerSideEncryption # req["c2"].ServerSideEncryption
    /\ req["c1"].Bucket = req["c2"].Bucket

(***************************************************************************)
(* C9.  DeleteObjects forwards one batch-delete request whatever the       *)
(* length of the identifier list, empty or beyond the service's limit of   *)
(* 1000: its bucket is the handle's bucket name, its delete section holds  *)
(* the list as given, and the method returns the client's result.          *)
(***************************************************************************)
C9_DeleteObjectsForwards ==
    \A c \in Callers :
        (pc[c] = "done" /\ call[c].op = "DeleteObjects") =>
            /\ Len(sent[c]) = 1
            /\ sent[c][1].method = "DeleteObjects"
            /\ sent[c][1].input.Bucket = handle.Name
            /\ BucketOf(sent[c][1].input) \in BucketNames
            /\ sent[c][1].input.Delete = <<[Objects |-> call[c].arg]>>
            /\ ret[c] = [val |-> reply[c].out, err |-> reply[c].err]

\* an empty batch and a batch of 1001 identifiers, both forwarded
C9_Witness ==
    /\ pc["c1"] = "done" /\ pc["c2"] = "done"
    /\ call["c1"].op = "DeleteObjects" /\ call["c2"].op = "DeleteObjects"
    /\ call["c1"].arg = <<>>
    /\ Len(call["c2"].arg) = ServiceMaxBatch + 1
    /\ Len(sent["c1"]) = 1 /\ Len(sent["c2"]) = 1
    /\ sent["c1"][1].input.Delete[1].Objects = <<>>
    /\ Len(sent["c2"][1].input.Delete[1].Objects) = ServiceMaxBatch + 1

(***************************************************************************)
(* C10.  Each Put option assigns its own fields and leaves every other     *)
(* field of the request as it was: SSEKMSKeyID(k) assigns SSEKMSKeyId = k  *)
(* and ServerSideEncryption = "aws:kms", SSES3 assigns only                *)
(* ServerSideEncryption = "AES256", the ACL options only ACL, ContentType  *)
(* only ContentType, ContentLength only ContentLength.  So after           *)
(* SSEKMSKeyID(k) followed by SSES3 the request carries "AES256" together  *)
(* with SSEKMSKeyId = k.                                                   *)
(***************************************************************************)
C10_FrameStep ==
    \A c \in Callers :
        (pc[c] = "opts" /\ call[c].op = "PutObject" /\ idx'[c] = idx[c] + 1) =>
            LET w == Writes(call[c].opts[idx[c] + 1])
            IN  /\ DOMAIN req'[c] = DOMAIN req[c]
                /\ \A field \in DOMAIN req[c] :
                      req'[c][field] = IF field \in DOMAIN w THEN w[field] ELSE req[c][field]

C10_KMSThenS3 ==
    \A c \in Callers : \A i \in 1..idx[c] :
        (/\ InCall(c, "PutObject")
         /\ i = idx[c] /\ i >= 2
         /\ call[c].opts[i - 1].name = "SSEKMSKeyID"
         /\ call[c].opts[i] = SSES3) =>
            /\ req[c].ServerSideEncryption = <<"AES256">>
            /\ req[c].SSEKMSKeyId = call[c].opts[i - 1].arg

C10_PutOptionFrame == [][C10_FrameStep]_vars /\ []C10_KMSThenS3

\* SSEKMSKeyID("key-2") then SSES3: AES256 with the key id still there
C10_Witness ==
    /\ pc["c1"] = "opts"
    /\ call["c1"].op = "PutObject"
    /\ idx["c1"] = 2
    /\ call["c1"].opts[1] = SSEKMSKeyID("key-2")
    /\ call["c1"].opts[2] = SSES3
    /\ req["c1"].ServerSideEncryption = <<"AES256">>
    /\ req["c1"].SSEKMSKeyId = <<"key-2">>

====
